---- MODULE Spec2Model ----
(***************************************************************************)
(* Model of pro_football_reference_web_scraper: the rate-limited fetcher   *)
(* (get_soup), the player resolver (get_href), the game-log extraction     *)
(* (field_player_game_log) and the eligible-player scan                    *)
(* (get_eligible_players / get_ignore_list).                               *)
(*                                                                         *)
(* Python str values are sequences of one-character strings, so that       *)
(* split, replace, `in`, int() and float() are computed, not assumed.      *)
(***************************************************************************)
EXTENDS Integers, Sequences, FiniteSets, TLC

VARIABLES
    REQUEST_COUNTER,  \* generic_game_log.REQUEST_COUNTER (module global)
    pc,               \* where the single-threaded run stands
    args,             \* arguments of the call in progress
    soup,             \* the parsed document the call in progress holds
    href,             \* get_href's result held by get_player_game_log
    ret,              \* what the last finished call returned or raised
    route,            \* which extraction path get_player_game_log took last
    sinceReset,       \* history: requests get_soup issued since the last pause
    slept,            \* history: whether the last get_soup call paused
    lastStatus,       \* history: kind of the last response received
    lastVia,          \* history: who issued the last outbound request
    url               \* the URL get_player_game_log built last

vars == <<REQUEST_COUNTER, pc, args, soup, href, url, ret, route,
          sinceReset, slept, lastStatus, lastVia>>

----------------------------------------------------------------------------
(* Bounds of the model *)

MaxRows == 3       \* rows of a table body drawn in the extraction specifications
MaxEntries == 2    \* <p> entries of a player index page

----------------------------------------------------------------------------
(* Python str primitives *)

Digits == <<"0", "1", "2", "3", "4", "5", "6", "7", "8", "9">>

IsDigit(c) == \E d \in 1..10 : Digits[d] = c

DigitVal(c) == (CHOOSE d \in 1..10 : Digits[d] = c) - 1

\* sub in s
Contains(sub, s) ==
    \E i \in 0..(Len(s) - Len(sub)) : SubSeq(s, i + 1, i + Len(sub)) = sub

\* s.split(c), c one character
RECURSIVE split(_, _)
split(s, c) ==
    IF \A i \in 1..Len(s) : s[i] # c
    THEN <<s>>
    ELSE LET i == CHOOSE k \in 1..Len(s) : s[k] = c /\ \A j \in 1..(k - 1) : s[j] # c
         IN  <<SubSeq(s, 1, i - 1)>> \o split(SubSeq(s, i + 1, Len(s)), c)

\* s.replace(old, new), old non-empty
RECURSIVE replace(_, _, _)
replace(s, old, new) ==
    IF Len(s) < Len(old) THEN s
    ELSE IF SubSeq(s, 1, Len(old)) = old
         THEN new \o replace(SubSeq(s, Len(old) + 1, Len(s)), old, new)
         ELSE <<s[1]>> \o replace(Tail(s), old, new)

\* s.strip() as int() and float() apply it to blanks
RECURSIVE strip(_)
strip(s) ==
    IF s = <<>> THEN s
    ELSE IF s[1] = " " THEN strip(Tail(s))
    ELSE IF s[Len(s)] = " " THEN strip(SubSeq(s, 1, Len(s) - 1))
    ELSE s

AllDigits(s) == Len(s) > 0 /\ \A i \in 1..Len(s) : IsDigit(s[i])

RECURSIVE DigitsVal(_)
DigitsVal(s) ==
    IF s = <<>> THEN 0 ELSE 10 * DigitsVal(SubSeq(s, 1, Len(s) - 1)) + DigitVal(s[Len(s)])

\* str(n) for n >= 0
RECURSIVE str(_)
str(n) == IF n < 10 THEN <<Digits[n + 1]>> ELSE str(n \div 10) \o <<Digits[(n % 10) + 1]>>

----------------------------------------------------------------------------
(* Python values held in the result frames.  One record shape for all:     *)
(* t is the Python type, n the int, m / 10^e the float, s the str,         *)
(* x the exception class when t = "raise".                                 *)

PyInt(n)      == [t |-> "int",   n |-> n, m |-> 0, e |-> 0, s |-> <<>>, x |-> ""]
PyFloat(m, e) == [t |-> "float", n |-> 0, m |-> m, e |-> e, s |-> <<>>, x |-> ""]
PyStr(s)      == [t |-> "str",   n |-> 0, m |-> 0, e |-> 0, s |-> s,    x |-> ""]
Raise(x)      == [t |-> "raise", n |-> 0, m |-> 0, e |-> 0, s |-> <<>>, x |-> x]

IsRaise(v) == v.t = "raise"

\* a decimal m / 10^e in lowest form
RECURSIVE Norm(_, _)
Norm(m, e) == IF e > 0 /\ m % 10 = 0 THEN Norm(m \div 10, e - 1) ELSE PyFloat(m, e)

\* int(text): optional surrounding blanks, optional sign, decimal digits
int(text) ==
    LET u == strip(text)
        neg == Len(u) > 0 /\ u[1] = "-"
        d == IF Len(u) > 0 /\ (u[1] = "-" \/ u[1] = "+") THEN Tail(u) ELSE u
    IN  IF AllDigits(d)
        THEN PyInt(IF neg THEN 0 - DigitsVal(d) ELSE DigitsVal(d))
        ELSE Raise("ValueError")

\* float(text) for non-negative decimal literals: digits, optionally one point
float(text) ==
    LET u == strip(text)
        parts == split(u, ".")
    IN  IF Len(parts) = 1 /\ AllDigits(parts[1])
        THEN Norm(DigitsVal(parts[1]), 0)
        ELSE IF Len(parts) = 2 /\ Len(parts[1]) + Len(parts[2]) > 0
                /\ (parts[1] = <<>> \/ AllDigits(parts[1]))
                /\ (parts[2] = <<>> \/ AllDigits(parts[2]))
        THEN Norm(DigitsVal(parts[1] \o parts[2]), Len(parts[2]))
        ELSE Raise("ValueError")

\* x / 100 on a float
Div100(v) == IF IsRaise(v) THEN v ELSE Norm(v.m, v.e + 2)

----------------------------------------------------------------------------
(* Parsed documents (BeautifulSoup).  A <tr> is the sequence of its <td>   *)
(* cells, each with its data-stat attribute and its text; a <p> of the     *)
(* player index has its text and the href of its <a>.                      *)

Cell(stat, text) == [stat |-> stat, text |-> text]

Entry(text, link) == [text |-> text, href |-> link]

TableSoup(rows) == [hasTbody |-> TRUE, tbody |-> rows, hasDiv |-> FALSE, players |-> <<>>]

IndexSoup(ps) == [hasTbody |-> FALSE, tbody |-> <<>>, hasDiv |-> TRUE, players |-> ps]

\* the body of a response that carries neither a table nor a player list
ErrorSoup == [hasTbody |-> FALSE, tbody |-> <<>>, hasDiv |-> FALSE, players |-> <<>>]

NoSoup == [hasTbody |-> FALSE, tbody |-> <<>>, hasDiv |-> FALSE, players |-> <<"none">>]

\* row.find('td', {'data-stat': stat}): index of the first such cell, 0 for None
find(row, stat) ==
    IF \E i \in 1..Len(row) : row[i].stat = stat
    THEN CHOOSE i \in 1..Len(row) :
             row[i].stat = stat /\ \A j \in 1..(i - 1) : row[j].stat # stat
    ELSE 0

\* all sequences over S of length at most n
SeqsUpTo(S, n) == UNION {[1..k -> S] : k \in 0..n}

----------------------------------------------------------------------------
(* What a call returns or raises *)

NoReturn == [kind |-> "none", x |-> "", data |-> <<>>]

Raised(x) == [kind |-> "raise", x |-> x, data |-> <<>>]

\* the column pandas makes of a list: a list of numbers with a float in it
\* becomes a float column, any other list keeps its values
Column(values) ==
    IF /\ \A k \in 1..Len(values) : values[k].t \in {"int", "float"}
       /\ \E k \in 1..Len(values) : values[k].t = "float"
    THEN [k \in 1..Len(values) |->
             IF values[k].t = "int" THEN PyFloat(values[k].n, 0) ELSE values[k]]
    ELSE values

\* pd.DataFrame(data=data)
DataFrame(data) ==
    [kind |-> "DataFrame", x |-> "", data |-> [key \in DOMAIN data |-> Column(data[key])]]

Returned0 == [kind |-> "int", x |-> "", data |-> <<>>]

----------------------------------------------------------------------------
(* generic_game_log.py: the field mapping and field_player_game_log *)

\* rows of data/field_player_mapping.csv (columns pfr, app, data_type): one
\* row for each special field and for each declared type
ELEMENT_TABLE ==
    << [pfr |-> "game_date",   app |-> "date",       data_type |-> "str"],
       [pfr |-> "game_result", app |-> "result",     data_type |-> "str"],
       [pfr |-> "game_result", app |-> "team_pts",   data_type |-> "int"],
       [pfr |-> "game_result", app |-> "opp_pts",    data_type |-> "int"],
       [pfr |-> "gs",          app |-> "start",      data_type |-> "int"],
       [pfr |-> "rec",         app |-> "receptions", data_type |-> "int"],
       [pfr |-> "pass_rating", app |-> "qbr",        data_type |-> "float"],
       [pfr |-> "off_pct",     app |-> "snap_pct",   data_type |-> "float"] >>

\* the keys of the data dict, cut to the fields ELEMENT_TABLE maps
DataKeys == {ELEMENT_TABLE[j].app : j \in 1..Len(ELEMENT_TABLE)}

EmptyData == [k \in DataKeys |-> <<>>]

\* line 181: the cell is absent
MissingCellValue == PyInt(0)

\* a slip of line 189: the empty str is appended for an empty cell
BlankCellValueStr == PyStr(<<>>)

\* line 189: the cell's text is empty
BlankCellValue == PyInt(0)

\* lines 193-197: cell_data_text.split(' ')[1].split('-')[k]
ScorePart(text, k) ==
    LET words == split(text, " ")
    IN  IF Len(words) < 2 THEN Raise("IndexError")
        ELSE LET scores == split(words[2], "-")
             IN  IF Len(scores) < k THEN Raise("IndexError") ELSE PyStr(scores[k])

\* lines 192-215: the value appended for a present, non-empty cell
CleanseValue(e, text) ==
    IF e.app = "team_pts" THEN ScorePart(text, 1)
    ELSE IF e.app = "opp_pts" THEN ScorePart(text, 2)
    ELSE IF e.app = "snap_pct" THEN Div100(float(replace(text, <<"%">>, <<>>)))
    ELSE IF e.app = "start" THEN PyInt(1)
    ELSE IF e.data_type = "int" THEN int(text)
    ELSE IF e.data_type = "float" THEN float(text)
    ELSE PyStr(text)

\* lines 177-215: the value appended to data[app] for mapping row j
CellValue(row, j) ==
    LET e == ELEMENT_TABLE[j]
        c == find(row, e.pfr)
    IN  IF c = 0 THEN MissingCellValue
        ELSE IF Len(row[c].text) = 0 THEN BlankCellValue
        ELSE CleanseValue(e, row[c].text)

\* a slip of line 164: one of the three reasons is left out
IsIgnoredReasonTwo(x) == x = <<"I", "n", "a", "c", "t", "i", "v", "e">> \/ x = <<"D", "i", "d", " ", "N", "o", "t", " ", "P", "l", "a", "y">>

\* line 164
IsIgnoredReason(x) ==
    x = <<"I", "n", "a", "c", "t", "i", "v", "e">> \/ x = <<"D", "i", "d", " ", "N", "o", "t", " ", "P", "l", "a", "y">> \/ x = <<"I", "n", "j", "u", "r", "e", "d", " ", "R", "e", "s", "e", "r", "v", "e">>

\* lines 160-165: the indices of the rows to skip
ToIgnore(table_rows) ==
    {i \in 1..Len(table_rows) : IsIgnoredReason(table_rows[i][Len(table_rows[i])].text)}

\* lines 174-215 for one row: st is [x, data], x the exception raised so far
RECURSIVE FillCols(_, _, _)
FillCols(st, row, j) ==
    IF st.x # "" \/ j > Len(ELEMENT_TABLE) THEN st
    ELSE LET v == CellValue(row, j)
         IN  IF IsRaise(v)
             THEN [st EXCEPT !.x = v.x]
             ELSE FillCols([st EXCEPT !.data[ELEMENT_TABLE[j].app] = Append(@, v)],
                           row, j + 1)

\* lines 168-215
RECURSIVE FillRows(_, _, _, _)
FillRows(st, table_rows, to_ignore, i) ==
    IF st.x # "" \/ i > Len(table_rows) THEN st
    ELSE IF i \in to_ignore THEN FillRows(st, table_rows, to_ignore, i + 1)
    ELSE FillRows(FillCols(st, table_rows[i], 1), table_rows, to_ignore, i + 1)

field_player_game_log(s) ==
    IF ~s.hasTbody THEN Raised("AttributeError")
    ELSE IF \E i \in 1..Len(s.tbody) : Len(s.tbody[i]) = 0 THEN Raised("IndexError")
    ELSE LET st == FillRows([x |-> "", data |-> EmptyData], s.tbody, ToIgnore(s.tbody), 1)
         IN  IF st.x # "" THEN Raised(st.x) ELSE DataFrame(st.data)

\* lines 223-224
kicker_game_log(s) == Returned0

----------------------------------------------------------------------------
(* generic_game_log.py: the player resolver *)

VALID_POSITIONS == {<<"Q", "B">>, <<"R", "B">>, <<"F", "B">>, <<"W", "R">>, <<"T", "E">>, <<"K">>}

ReturnedStr(text) == [kind |-> "str", x |-> "", data |-> text]

\* a slip of line 59: the last active year is excluded
EntryMatchOpenEnd(p, player, position, season) ==
    LET words == split(p.text, " ")
        seasons == split(words[Len(words)], "-")
        first == int(seasons[1])
    IN  IF IsRaise(first) THEN first.x
        ELSE IF ~(season >= first.n) THEN "skip"
        ELSE IF Len(seasons) < 2 THEN "IndexError"
        ELSE LET last == int(seasons[2])
             IN  IF IsRaise(last) THEN last.x
                 ELSE IF season < last.n /\ Contains(player, p.text)
                                         /\ Contains(position, p.text)
                      THEN "match"
                      ELSE "skip"

\* lines 57-59 for one <p>: "match", "skip", or the exception class raised.
\* `and` evaluates left to right and stops at the first false operand.
EntryMatch(p, player, position, season) ==
    LET words == split(p.text, " ")
        seasons == split(words[Len(words)], "-")
        first == int(seasons[1])
    IN  IF IsRaise(first) THEN first.x
        ELSE IF ~(season >= first.n) THEN "skip"
        ELSE IF Len(seasons) < 2 THEN "IndexError"
        ELSE LET last == int(seasons[2])
             IN  IF IsRaise(last) THEN last.x
                 ELSE IF season <= last.n /\ Contains(player, p.text)
                                          /\ Contains(position, p.text)
                      THEN "match"
                      ELSE "skip"

\* lines 56-61
RECURSIVE ScanPlayers(_, _, _, _, _)
ScanPlayers(players, i, player, position, season) ==
    IF i > Len(players) THEN Raised("Exception")
    ELSE LET m == EntryMatch(players[i], player, position, season)
         IN  IF m = "match" THEN ReturnedStr(replace(players[i].href, <<".", "h", "t", "m">>, <<>>))
             ELSE IF m = "skip" THEN ScanPlayers(players, i + 1, player, position, season)
             ELSE Raised(m)

get_href(player, position, season, player_list) ==
    IF ~player_list.hasDiv THEN Raised("AttributeError")
    ELSE ScanPlayers(player_list.players, 1, player, position, season)

\* lines 65-69: the path of the index page of the last name's initial
get_player_list_url(player) ==
    LET name_split == split(player, " ")
    IN  IF Len(name_split) < 2 \/ Len(name_split[2]) < 1 THEN Raised("IndexError")
        ELSE ReturnedStr(<<"/", "p", "l", "a", "y", "e", "r", "s", "/">> \o <<name_split[2][1]>> \o <<"/">>)

\* lines 73-75
get_player_url(link, season) == link \o <<"/", "g", "a", "m", "e", "l", "o", "g", "/">> \o str(season) \o <<"/">>

----------------------------------------------------------------------------
(* eligible_players.py *)

VALID_STATS == {"passing", "scrimmage", "kicking"}

\* lines 157-159 and 58-59: an empty position reads as QB
PositionOf(text) == IF Len(text) = 0 THEN <<"Q", "B">> ELSE text

\* lines 140-163: does the passing scan put this row on the ignore list
IgnoredForPassing(row) ==
    LET c == find(row, "pos")
    IN  IF c = 0 THEN TRUE ELSE PositionOf(row[c].text) # <<"Q", "B">>

\* lines 135-176
get_ignore_list(stat_type, table_rows) ==
    IF stat_type = "passing"
    THEN {i \in 1..Len(table_rows) : IgnoredForPassing(table_rows[i])}
    ELSE {}

\* lines 191-193
get_player_id(name, position, season) ==
    replace(name \o position \o str(season), <<" ">>, <<>>)

\* line 29: the file name of the season page, '%s.%s' % (stat_type, 'htm')
SeasonFile(stat_type) ==
    IF stat_type = "passing" THEN <<"p", "a", "s", "s", "i", "n", "g", ".", "h", "t", "m">>
    ELSE IF stat_type = "scrimmage" THEN <<"s", "c", "r", "i", "m", "m", "a", "g", "e", ".", "h", "t", "m">>
    ELSE <<"k", "i", "c", "k", "i", "n", "g", ".", "h", "t", "m">>

PlayerColumns == {"playerID", "name", "position", "age", "season"}

\* lines 53-67 for one row
AppendPlayer(st, row, season) ==
    LET cp == find(row, "player")
        cq == find(row, "pos")
        ca == find(row, "age")
    IN  IF cp = 0 \/ cq = 0 \/ ca = 0 THEN [st EXCEPT !.x = "AttributeError"]
        ELSE LET name == replace(replace(row[cp].text, <<"*">>, <<>>), <<"+">>, <<>>)
                 position == PositionOf(row[cq].text)
                 age == int(row[ca].text)
             IN  IF IsRaise(age) THEN [st EXCEPT !.x = age.x]
                 ELSE [st EXCEPT
                          !.data["playerID"] = Append(@, PyStr(get_player_id(name, position, season))),
                          !.data["name"] = Append(@, PyStr(name)),
                          !.data["position"] = Append(@, PyStr(position)),
                          !.data["age"] = Append(@, age),
                          !.data["season"] = Append(@, PyInt(season))]

\* lines 51-67
RECURSIVE FillPlayers(_, _, _, _, _)
FillPlayers(st, table_rows, ignore_list, season, i) ==
    IF st.x # "" \/ i > Len(table_rows) THEN st
    ELSE IF i \in ignore_list THEN FillPlayers(st, table_rows, ignore_list, season, i + 1)
    ELSE FillPlayers(AppendPlayer(st, table_rows[i], season),
                     table_rows, ignore_list, season, i + 1)

\* lines 35-117: what get_eligible_players makes of the parsed response
ScanSeason(stat_type, season, s) ==
    IF ~s.hasTbody THEN Raised("AttributeError")
    ELSE LET st == FillPlayers([x |-> "", data |-> [k \in PlayerColumns |-> <<>>]],
                               s.tbody, get_ignore_list(stat_type, s.tbody), season, 1)
         IN  IF st.x # "" THEN Raised(st.x) ELSE DataFrame(st.data)

----------------------------------------------------------------------------
(* generic_game_log.py: the request budget *)

\* line 95: the ceiling of the request counter
Ceiling == 20

\* a slip of line 95: the comparison is strict
NeedsPauseLate(counter) == counter > Ceiling

\* line 95: if REQUEST_COUNTER >= 20
NeedsPause(counter) == counter >= Ceiling

\* lines 95-97: the counter after the budget check
AfterCheck(counter) == IF NeedsPause(counter) THEN 0 ELSE counter

\* lines 99-101: the counter after requests.get returned a response
AfterRequest(counter) == counter + 1

----------------------------------------------------------------------------
(* The pages the site may serve *)

Response(status, s) == [status |-> status, soup |-> s]

\* requests.get(url): a response with a success status and a page, a response
\* with a non-success status and an error body, or an exception
Responses(pages) ==
    {Response("ok", s) : s \in pages}
        \cup {Response("non_success", ErrorSoup), Response("network_error", NoSoup)}

\* rows of a game-log table
GameLogRows ==
    { <<Cell("game_date", <<"D", "1">>), Cell("game_result", <<"W", " ", "2", "4", "-", "1", "7">>), Cell("gs", <<"*">>),
        Cell("rec", <<"7">>), Cell("pass_rating", <<"1", "2", ".", "5">>), Cell("off_pct", <<"6", "2", "%">>)>>,
      <<Cell("game_date", <<>>), Cell("game_result", <<"L", " ", "3", "-", "1", "0">>), Cell("gs", <<>>),
        Cell("rec", <<>>), Cell("pass_rating", <<>>), Cell("off_pct", <<>>)>>,
      <<Cell("game_date", <<"D", "3">>), Cell("reason", <<"I", "n", "a", "c", "t", "i", "v", "e">>)>>,
      <<Cell("game_date", <<"D", "4">>), Cell("reason", <<"D", "i", "d", " ", "N", "o", "t", " ", "P", "l", "a", "y">>)>>,
      <<Cell("reason", <<"I", "n", "j", "u", "r", "e", "d", " ", "R", "e", "s", "e", "r", "v", "e">>)>>,
      <<Cell("reason", <<"I", "n", "a", "c", "t", "i", "v", "e">>), Cell("game_date", <<"D", "5">>)>>,
      <<Cell("game_result", <<"T", " ", "2", "0", "-", "2", "0">>)>>,
      <<Cell("game_date", <<"D", "6">>), Cell("game_result", <<"W">>), Cell("rec", <<"2">>)>>,
      <<Cell("game_date", <<"D", "7">>), Cell("rec", <<"x">>)>>,
      <<>> }

GameLogPages == {TableSoup(rows) : rows \in SeqsUpTo(GameLogRows, MaxRows)}

\* <p> entries of a player index page
IndexEntries ==
    { Entry(<<"A", "l", " ", "F", "a", " ", "(", "T", "E", ")", " ", "2", "0", "0", "6", "-", "2", "0", "1", "7">>, <<"/", "p", "l", "a", "y", "e", "r", "s", "/", "F", "/", "F", "a", "A", "l", "0", "0", ".", "h", "t", "m">>),
      Entry(<<"A", "l", " ", "F", "a", " ", "(", "Q", "B", ")", " ", "2", "0", "1", "0", "-", "2", "0", "1", "0">>, <<"/", "p", "l", "a", "y", "e", "r", "s", "/", "F", "/", "F", "a", "A", "l", "0", "1", ".", "h", "t", "m">>),
      Entry(<<"B", "o", " ", "F", "a", " ", "(", "K", ")", " ", "2", "0", "0", "8", "-", "2", "0", "1", "2">>, <<"/", "p", "l", "a", "y", "e", "r", "s", "/", "F", "/", "F", "a", "B", "o", "0", "0", ".", "h", "t", "m">>),
      Entry(<<"A", "l", " ", "F", "a", "y", " ", "(", "W", "R", "-", "T", "E", ")", " ", "2", "0", "0", "9", "-", "2", "0", "1", "1">>, <<"/", "p", "l", "a", "y", "e", "r", "s", "/", "F", "/", "F", "a", "y", "A", "l", "0", "0", ".", "h", "t", "m">>),
      Entry(<<"C", "y", " ", "F", "a", " ", "(", "R", "B", ")">>, <<"/", "p", "l", "a", "y", "e", "r", "s", "/", "F", "/", "F", "a", "C", "y", "0", "0", ".", "h", "t", "m">>),
      Entry(<<"D", "i", " ", "F", "a", " ", "(", "R", "B", ")", " ", "2", "0", "1", "2">>, <<"/", "p", "l", "a", "y", "e", "r", "s", "/", "F", "/", "F", "a", "D", "i", "0", "0", ".", "h", "t", "m">>) }

IndexPages == {IndexSoup(ps) : ps \in SeqsUpTo(IndexEntries, MaxEntries)}

\* rows of a season-summary table; the empty row is a table-section break
SeasonRows ==
    { <<Cell("player", <<"A", "l", " ", "F", "a", "*">>), Cell("pos", <<"Q", "B">>), Cell("age", <<"2", "7">>)>>,
      <<Cell("player", <<"B", "o", " ", "K", "a", "+">>), Cell("pos", <<"K">>), Cell("age", <<"3", "0">>)>>,
      <<Cell("player", <<"C", "y", " ", "R", "o">>), Cell("pos", <<>>), Cell("age", <<"2", "4">>)>>,
      <<Cell("player", <<"D", "i", " ", "M", "a">>), Cell("pos", <<"R", "B">>), Cell("age", <<"2", "2">>)>>,
      <<Cell("player", <<"E", "d", " ", "N", "a">>), Cell("pos", <<"W", "R">>), Cell("age", <<>>)>>,
      <<Cell("player", <<"G", "u", " ", "P", "o">>), Cell("pos", <<"P">>), Cell("age", <<"3", "1">>)>>,
      <<>> }

SeasonPages == {TableSoup(rows) : rows \in SeqsUpTo(SeasonRows, MaxRows)}

Players == {<<"A", "l", " ", "F", "a">>, <<"B", "o", " ", "F", "a">>}

Positions == VALID_POSITIONS \cup {<<"P">>}

Seasons == {2009, 2010, 2012}

StatTypes == VALID_STATS \cup {"rushing"}

\* the pages served in the specification of the whole run
RunIndexPages ==
    { IndexSoup(<<Entry(<<"A", "l", " ", "F", "a", " ", "(", "T", "E", ")", " ", "2", "0", "0", "6", "-", "2", "0", "1", "7">>, <<"/", "p", "l", "a", "y", "e", "r", "s", "/", "F", "/", "F", "a", "A", "l", "0", "0", ".", "h", "t", "m">>),
                  Entry(<<"B", "o", " ", "F", "a", " ", "(", "K", ")", " ", "2", "0", "0", "8", "-", "2", "0", "1", "2">>, <<"/", "p", "l", "a", "y", "e", "r", "s", "/", "F", "/", "F", "a", "B", "o", "0", "0", ".", "h", "t", "m">>)>>) }

RunGameLogPages ==
    { TableSoup(<<
        <<Cell("game_date", <<"D", "1">>), Cell("game_result", <<"W", " ", "2", "4", "-", "1", "7">>), Cell("gs", <<"*">>),
          Cell("rec", <<"7">>), Cell("pass_rating", <<"1", "2", ".", "5">>), Cell("off_pct", <<"6", "2", "%">>)>>,
        <<Cell("game_date", <<"D", "3">>), Cell("reason", <<"I", "n", "a", "c", "t", "i", "v", "e">>)>> >>) }

RunSeasonPages ==
    { TableSoup(<<
        <<Cell("player", <<"A", "l", " ", "F", "a", "*">>), Cell("pos", <<"Q", "B">>), Cell("age", <<"2", "7">>)>>,
        <<Cell("player", <<"B", "o", " ", "K", "a", "+">>), Cell("pos", <<"K">>), Cell("age", <<"3", "0">>)>>,
        <<>> >>) }

----------------------------------------------------------------------------
(* The run.  One interpreter, one thread; an exception no code of the      *)
(* repository catches ends the run (pc = "failed").                        *)

NoArgs == [op |-> "none", player |-> <<>>, position |-> <<>>, season |-> 0, stat_type |-> ""]

NoRoute == [position |-> <<>>, path |-> "none"]

InitRun ==
    /\ REQUEST_COUNTER = 0
    /\ pc = "idle"
    /\ args = NoArgs
    /\ soup = NoSoup
    /\ href = <<>>
    /\ url = <<>>
    /\ ret = NoReturn
    /\ route = NoRoute
    /\ sinceReset = 0
    /\ slept = FALSE
    /\ lastStatus = "none"
    /\ lastVia = "none"

history == <<sinceReset, slept, lastStatus, lastVia>>

\* get_player_game_log, lines 26-33: validation and the index URL
Call(player, position, season) ==
    /\ pc = "idle"
    /\ args' = [op |-> "get_player_game_log", player |-> player, position |-> position,
                season |-> season, stat_type |-> ""]
    /\ soup' = NoSoup
    /\ href' = <<>>
    /\ route' = NoRoute
    /\ IF position \notin VALID_POSITIONS
       THEN pc' = "failed" /\ ret' = Raised("Exception") /\ url' = <<>>
       ELSE LET u == get_player_list_url(player)
            IN  IF u.kind = "raise"
                THEN pc' = "failed" /\ ret' = u /\ url' = <<>>
                ELSE pc' = "fetch_list" /\ ret' = NoReturn /\ url' = u.data
    /\ UNCHANGED <<REQUEST_COUNTER, history>>

get_player_game_log ==
    \E player \in Players, position \in Positions, season \in Seasons :
        Call(player, position, season)

\* get_soup, lines 92-103, called at lines 35 and 43
get_soup ==
    /\ pc \in {"fetch_list", "fetch_log"}
    /\ \E resp \in Responses(IF pc = "fetch_list" THEN RunIndexPages ELSE RunGameLogPages) :
          /\ slept' = NeedsPause(REQUEST_COUNTER)
          /\ sinceReset' = (IF NeedsPause(REQUEST_COUNTER) THEN 0 ELSE sinceReset) + 1
          /\ lastVia' = "get_soup"
          /\ lastStatus' = resp.status
          /\ IF resp.status = "network_error"
             THEN /\ REQUEST_COUNTER' = AfterCheck(REQUEST_COUNTER)
                  /\ pc' = "failed"
                  /\ ret' = Raised("ConnectionError")
                  /\ soup' = NoSoup
             ELSE /\ REQUEST_COUNTER' = AfterRequest(AfterCheck(REQUEST_COUNTER))
                  /\ pc' = IF pc = "fetch_list" THEN "resolve" ELSE "route"
                  /\ ret' = ret
                  /\ soup' = resp.soup
    /\ UNCHANGED <<args, href, url, route>>

\* get_player_game_log, lines 38-41: get_href and get_player_url
Resolve ==
    /\ pc = "resolve"
    /\ LET h == get_href(args.player, args.position, args.season, soup)
       IN  IF h.kind = "raise"
           THEN pc' = "failed" /\ ret' = h /\ UNCHANGED <<href, url>>
           ELSE /\ pc' = "fetch_log"
                /\ ret' = ret
                /\ href' = h.data
                /\ url' = get_player_url(h.data, args.season)
    /\ UNCHANGED <<REQUEST_COUNTER, args, soup, route, history>>

\* a non-empty str is true
Truthy(text) == Len(text) > 0

\* line 46: position == 'QB' or 'RB' or 'FB' or 'WR' or 'TE'
IsFieldPlayer(position) ==
    position = <<"Q", "B">> \/ Truthy(<<"R", "B">>) \/ Truthy(<<"F", "B">>) \/ Truthy(<<"W", "R">>) \/ Truthy(<<"T", "E">>)

\* get_player_game_log, lines 46-49: the extraction path
Dispatch ==
    /\ pc = "route"
    /\ LET field == IsFieldPlayer(args.position)
           r == IF field THEN field_player_game_log(soup) ELSE kicker_game_log(soup)
       IN  /\ route' = [position |-> args.position,
                        path |-> IF field THEN "field_player_game_log"
                                          ELSE "kicker_game_log"]
           /\ ret' = r
           /\ pc' = IF r.kind = "raise" THEN "failed" ELSE "idle"
    /\ UNCHANGED <<REQUEST_COUNTER, args, soup, href, url, history>>

\* get_eligible_players, lines 23-29: validation and the season URL
get_eligible_players ==
    /\ pc = "idle"
    /\ \E stat_type \in StatTypes, season \in Seasons :
          /\ args' = [op |-> "get_eligible_players", player |-> <<>>, position |-> <<>>,
                      season |-> season, stat_type |-> stat_type]
          /\ IF stat_type \notin VALID_STATS
             THEN pc' = "failed" /\ ret' = Raised("Exception") /\ url' = <<>>
             ELSE /\ pc' = "fetch_season"
                  /\ ret' = NoReturn
                  /\ url' = <<"/", "y", "e", "a", "r", "s", "/">> \o str(season) \o <<"/">> \o SeasonFile(stat_type)
    /\ soup' = NoSoup
    /\ href' = <<>>
    /\ route' = NoRoute
    /\ UNCHANGED <<REQUEST_COUNTER, history>>

\* get_eligible_players, lines 32-117: the request, issued with requests.get,
\* and the scan of the page, over the pages the site may serve
ScanSeasonPage(pages) ==
    /\ pc = "fetch_season"
    /\ \E resp \in Responses(pages) :
          /\ lastVia' = "requests.get"
          /\ lastStatus' = resp.status
          /\ soup' = resp.soup
          /\ ret' = IF resp.status = "network_error"
                    THEN Raised("ConnectionError")
                    ELSE ScanSeason(args.stat_type, args.season, resp.soup)
          /\ pc' = IF ret'.kind = "raise" THEN "failed" ELSE "idle"
    /\ UNCHANGED <<REQUEST_COUNTER, args, href, url, route, sinceReset, slept>>

request_season_page == ScanSeasonPage(RunSeasonPages)

Init == InitRun

Next ==
    \/ get_player_game_log
    \/ get_soup
    \/ Resolve
    \/ Dispatch
    \/ get_eligible_players
    \/ request_season_page

Spec == Init /\ [][Next]_vars

----------------------------------------------------------------------------
(* Specifications of the single operations, each started from the state    *)
(* the run is in when the operation is applied, over all pages of the      *)
(* bounded sets.                                                           *)

\* field_player_game_log on every game-log page: both pages are fetched
InitGameLog ==
    /\ REQUEST_COUNTER = 2
    /\ pc = "route"
    /\ \E position \in VALID_POSITIONS :
          args = [op |-> "get_player_game_log", player |-> <<"A", "l", " ", "F", "a">>, position |-> position,
                  season |-> 2010, stat_type |-> ""]
    /\ soup \in GameLogPages
    /\ href = <<"/", "p", "l", "a", "y", "e", "r", "s", "/", "F", "/", "F", "a", "A", "l", "0", "0">>
    /\ url = get_player_url(href, 2010)
    /\ ret = NoReturn
    /\ route = NoRoute
    /\ sinceReset = 2
    /\ slept = FALSE
    /\ lastStatus = "ok"
    /\ lastVia = "get_soup"

NextGameLog == Dispatch

SpecGameLog == InitGameLog /\ [][NextGameLog]_vars

\* get_href on every index page: the index page is fetched
InitHref ==
    /\ REQUEST_COUNTER = 1
    /\ pc = "resolve"
    /\ \E player \in Players, position \in VALID_POSITIONS, season \in Seasons :
          /\ args = [op |-> "get_player_game_log", player |-> player,
                     position |-> position, season |-> season, stat_type |-> ""]
          /\ url = get_player_list_url(player).data
    /\ soup \in IndexPages
    /\ href = <<>>
    /\ ret = NoReturn
    /\ route = NoRoute
    /\ sinceReset = 1
    /\ slept = FALSE
    /\ lastStatus = "ok"
    /\ lastVia = "get_soup"

NextHref == Resolve

SpecHref == InitHref /\ [][NextHref]_vars

\* get_eligible_players on every season-summary page: the call is validated
InitEligible ==
    /\ REQUEST_COUNTER = 0
    /\ pc = "fetch_season"
    /\ \E stat_type \in VALID_STATS, season \in Seasons :
          /\ args = [op |-> "get_eligible_players", player |-> <<>>, position |-> <<>>,
                     season |-> season, stat_type |-> stat_type]
          /\ url = <<"/", "y", "e", "a", "r", "s", "/">> \o str(season) \o <<"/">> \o SeasonFile(stat_type)
    /\ soup = NoSoup
    /\ href = <<>>
    /\ ret = NoReturn
    /\ route = NoRoute
    /\ sinceReset = 0
    /\ slept = FALSE
    /\ lastStatus = "none"
    /\ lastVia = "none"

NextEligible == ScanSeasonPage(SeasonPages)

SpecEligible == InitEligible /\ [][NextEligible]_vars

----------------------------------------------------------------------------
(* Properties *)

FetchPcs == {"fetch_list", "fetch_log"}

\* a step of the fetcher: it paused if and only if exactly 20 requests were
\* issued since the last pause, and a pause reset the counter
FetcherStep ==
    (pc \in FetchPcs) =>
        /\ slept' <=> (sinceReset = Ceiling)
        /\ slept' => REQUEST_COUNTER' = (IF lastStatus' = "network_error" THEN 0 ELSE 1)
        /\ sinceReset <= Ceiling

\* C1: in a run that starts with the counter at 0, a call of the fetcher
\* pauses if and only if exactly 20 requests were issued since the last pause
\* (or since the start), and a pause resets the counter, which then counts
\* only the request that follows.
C1_PauseExactlyEvery20 == [][FetcherStep]_vars

\* a call of the fetcher has paused, after 20 requests, and issued the 21st
C1_Witness == slept /\ lastVia = "get_soup" /\ lastStatus = "ok" /\ REQUEST_COUNTER = 1

\* C2: every outbound page request, of get_eligible_players as of
\* get_player_game_log, is issued by the rate-limited fetcher; no other
\* component issues a request directly.
C2_AllRequestsViaFetcher == lastVia \in {"none", "get_soup"}

\* the positions eligible for a category
EligiblePositions(stat_type) ==
    IF stat_type = "passing" THEN {<<"Q", "B">>}
    ELSE IF stat_type = "scrimmage" THEN {<<"R", "B">>, <<"F", "B">>, <<"W", "R">>, <<"T", "E">>}
    ELSE {<<"K">>}

EligibleReturned ==
    args.op = "get_eligible_players" /\ pc = "idle" /\ ret.kind = "DataFrame"

\* C3: the table get_eligible_players returns for a valid category holds
\* only records whose position is in that category's eligible set.
C3_OnlyEligiblePositions ==
    EligibleReturned =>
        \A k \in 1..Len(ret.data["position"]) :
            ret.data["position"][k].s \in EligiblePositions(args.stat_type)

\* a row is excluded when the text of its final cell is one of the three reasons
ExcludedRow(row) ==
    Len(row) > 0
        /\ row[Len(row)].text \in {<<"I", "n", "a", "c", "t", "i", "v", "e">>, <<"D", "i", "d", " ", "N", "o", "t", " ", "P", "l", "a", "y">>, <<"I", "n", "j", "u", "r", "e", "d", " ", "R", "e", "s", "e", "r", "v", "e">>}

RECURSIVE Participated(_)
Participated(rows) ==
    IF rows = <<>> THEN <<>>
    ELSE IF ExcludedRow(Head(rows)) THEN Participated(Tail(rows))
    ELSE <<Head(rows)>> \o Participated(Tail(rows))

GameLogReturned ==
    args.op = "get_player_game_log" /\ pc = "idle" /\ ret.kind = "DataFrame"

\* the source cell of a mapping entry is absent from the row, or its text is empty
AbsentOrBlank(row, stat) == find(row, stat) = 0 \/ row[find(row, stat)].text = <<>>

\* the number zero: the int 0, or 0.0 in a column pandas made float
IsZeroNumber(v) == v = PyInt(0) \/ v = PyFloat(0, 0)

\* the value is the zero value of a declared type; 0 and 0.0 count as equal
IsZeroOf(v, data_type) ==
    IF data_type \in {"int", "float"} THEN IsZeroNumber(v) ELSE v = PyStr(<<>>)

C5_RecordsAreParticipatedRows ==
    GameLogReturned =>
        LET rows == Participated(soup.tbody)
        IN  /\ \A key \in DataKeys : Len(ret.data[key]) = Len(rows)
            /\ \A k \in 1..Len(rows) :
                   ~AbsentOrBlank(rows[k], "game_date") =>
                       ret.data["date"][k] = PyStr(rows[k][find(rows[k], "game_date")].text)

\* a table of two rows played and an excluded row between them gave two records
C5_Witness ==
    /\ GameLogReturned
    /\ Len(soup.tbody) = 3
    /\ ~ExcludedRow(soup.tbody[1]) /\ ExcludedRow(soup.tbody[2]) /\ ~ExcludedRow(soup.tbody[3])
    /\ soup.tbody[1] # soup.tbody[3]
    /\ Len(ret.data["date"]) = 2

\* the active years of an entry, read off the last word of its text
YearsOf(p) == split(split(p.text, " ")[Len(split(p.text, " "))], "-")

\* the entry's text ends in a range start-end of two years
WellFormedEntry(p) ==
    Len(YearsOf(p)) = 2 /\ AllDigits(YearsOf(p)[1]) /\ AllDigits(YearsOf(p)[2])

\* the season is within the active years, and name and position are in the text
Matches(p, player, position, season) ==
    /\ DigitsVal(YearsOf(p)[1]) <= season
    /\ season <= DigitsVal(YearsOf(p)[2])
    /\ Contains(player, p.text)
    /\ Contains(position, p.text)

\* the link without its '.htm' suffix
WithoutSuffix(link) == SubSeq(link, 1, Len(link) - 4)

\* C6: on an index page whose entries all end in a range of years, the
\* resolver returns the link path, '.htm' removed, of the first entry in
\* document order whose range contains the season inclusively and whose text
\* contains the name and the position; it fails with the not-found error if
\* and only if no entry matches.
C6_FirstMatchOrNotFound ==
    (args.op = "get_player_game_log" /\ pc \in {"fetch_log", "failed"}
        /\ soup.hasDiv /\ \A i \in 1..Len(soup.players) : WellFormedEntry(soup.players[i]))
    => LET M == {i \in 1..Len(soup.players) :
                     Matches(soup.players[i], args.player, args.position, args.season)}
       IN  IF M = {}
           THEN pc = "failed" /\ ret = Raised("Exception")
           ELSE /\ pc = "fetch_log"
                /\ href = WithoutSuffix(soup.players[CHOOSE i \in M : \A j \in M : i <= j].href)

\* two entries of the page match and the link of the first was returned
C6_Witness ==
    /\ args.op = "get_player_game_log" /\ pc = "fetch_log"
    /\ Len(soup.players) >= 2
    /\ \A i \in 1..Len(soup.players) : WellFormedEntry(soup.players[i])
    /\ Cardinality({i \in 1..Len(soup.players) :
           Matches(soup.players[i], args.player, args.position, args.season)}) >= 2
    /\ soup.players[1].href # soup.players[2].href
    /\ href = WithoutSuffix(soup.players[1].href)

\* C7: after the two pages are fetched, position K is routed to the kicker
\* extraction path and every other supported position to the generic
\* field-player path.
C7_KickerRoutedToKickerPath ==
    route.path # "none" =>
        (route.path = "kicker_game_log" <=> route.position = <<"K">>)

\* C8: a fetch that failed at the transport level, by a non-success status or
\* a network error, is surfaced as an error: no parsed document is handed
\* on and the enclosing operation has failed.
C8_FailedFetchIsSurfaced ==
    lastStatus \in {"non_success", "network_error"} => pc = "failed"

\* a row with no cell at all is a table-section break
IsBreak(row) == Len(row) = 0

\* a row with a name, a position and a numeric age
CompleteRow(row) ==
    /\ find(row, "player") # 0 /\ find(row, "pos") # 0 /\ find(row, "age") # 0
    /\ AllDigits(row[find(row, "age")].text)

\* C9: for every valid category, a row with no position cell is skipped: it
\* contributes no record and does not make get_eligible_players fail.
C9_BreakRowSkipped ==
    (/\ args.op = "get_eligible_players"
     /\ pc \in {"idle", "failed"}
     /\ lastStatus = "ok"
     /\ \E i \in 1..Len(soup.tbody) : IsBreak(soup.tbody[i])
     /\ \A i \in 1..Len(soup.tbody) : IsBreak(soup.tbody[i]) \/ CompleteRow(soup.tbody[i]))
    => /\ ret.kind = "DataFrame"
       /\ Len(ret.data["name"]) <=
              Cardinality({i \in 1..Len(soup.tbody) : ~IsBreak(soup.tbody[i])})

\* the score of a result "<result> <teamScore>-<oppScore>", as a number
ScoreOf(text, k) == DigitsVal(split(split(text, " ")[2], "-")[k])

\* the text is "<result> <teamScore>-<oppScore>"
IsResultText(text) ==
    /\ Len(split(text, " ")) = 2
    /\ Len(split(split(text, " ")[2], "-")) = 2
    /\ AllDigits(split(split(text, " ")[2], "-")[1])
    /\ AllDigits(split(split(text, " ")[2], "-")[2])

\* the text is "NN%"
IsPercentText(text) ==
    Len(text) >= 2 /\ text[Len(text)] = "%" /\ AllDigits(SubSeq(text, 1, Len(text) - 1))

\* C10: for a present, non-empty source cell, team_pts and opp_pts are the
\* numbers teamScore and oppScore of "<result> <teamScore>-<oppScore>",
\* snap_pct of "NN%" is NN/100, and start is 1 for any content.
C10_SpecialFieldsDecoded ==
    GameLogReturned =>
        \A k \in 1..Len(Participated(soup.tbody)) :
            LET row == Participated(soup.tbody)[k]
                text(stat) == row[find(row, stat)].text
            IN  /\ (~AbsentOrBlank(row, "game_result") /\ IsResultText(text("game_result")))
                       => /\ ret.data["team_pts"][k] = PyInt(ScoreOf(text("game_result"), 1))
                          /\ ret.data["opp_pts"][k] = PyInt(ScoreOf(text("game_result"), 2))
                /\ (~AbsentOrBlank(row, "off_pct") /\ IsPercentText(text("off_pct")))
                       => ret.data["snap_pct"][k] =
                              Norm(DigitsVal(SubSeq(text("off_pct"), 1, Len(text("off_pct")) - 1)), 2)
                /\ ~AbsentOrBlank(row, "gs") => ret.data["start"][k] = PyInt(1)

====
